---- MODULE Spec2Model ----
(***************************************************************************)
(* Model of pages/similarity.py: the patient-similarity dashboard page.    *)
(*                                                                         *)
(* The page keeps five process-wide globals (client, task, start,          *)
(* centroids, profiles), loads the TNM staging scheme at import time and   *)
(* registers three callbacks:                                              *)
(*   send_similarity_analysis_task(n_clicks)                               *)
(*   get_similarity_analysis_results(n_clicks)                             *)
(*   survival_profile(t, n, m)                                             *)
(* Callbacks run one at a time, each to completion.  A callback that       *)
(* raises leaves the page's output region as it was, but keeps every       *)
(* assignment to a global made before the raise.                           *)
(* One page drives the globals: the 'Get results' button exists only       *)
(* inside the output region of the submit callback, and the retrieval      *)
(* callback fires only from that button.  The remote calls of a retrieval  *)
(* are taken to answer; those of a submission may raise.                   *)
(*                                                                         *)
(* Encoding of Python values:                                              *)
(*   - a stage label is a positive integer, 0 is "nothing selected"        *)
(*     (None / '' : the falsy dropdown value);                             *)
(*   - a value that is None or a list is a record [isNone, v];             *)
(*   - task is the id of the task handle, 0 when it is None / falsy;       *)
(*   - a survival rate is an integer level (the values are only copied);   *)
(*   - distances are kept squared: the square root is strictly increasing, *)
(*     so comparisons and ties between distances are the same.             *)
(***************************************************************************)
EXTENDS Integers, Sequences, FiniteSets

VARIABLES
    client,      \* global client: TRUE once a Client object is stored
    task,        \* global task: id of the stored handle, 0 for None / falsy
    start,       \* global start: time of the last submission, 0 for None
    centroids,   \* global centroids: None or a list of 3-d points
    profiles,    \* global profiles: None or a list of survival profiles
    t_values,    \* cdm['t']['values']
    n_values,    \* cdm['n']['values']
    m_values,    \* cdm['m']['values']
    now,         \* wall clock, advanced by each submission
    remote,      \* the remote service's record of the last created task
    button,      \* the 'Get results' button is on the page
    last         \* the last callback invocation: arguments and outcome

vars == <<client, task, start, centroids, profiles, t_values, n_values,
          m_values, now, remote, button, last>>

globals == <<client, task, start, centroids, profiles>>
cdm == <<t_values, n_values, m_values>>

(***************************************************************************)
(* Bounds                                                                  *)
(***************************************************************************)
MaxClusters == 2      \* longest centroid / profile list the remote returns
MaxValues == 2        \* longest per-axis value list of the staging scheme
MaxSubmits == 2       \* submissions (clock ticks) explored

Coord == {0, 1}                    \* coordinates of a centroid
RateLevels == {0, 1}               \* first value of a generated profile
StageLabels == 1 .. MaxValues      \* labels a scheme may list
Clicks == {0, 1}                   \* n_clicks: 0, or some positive count

(***************************************************************************)
(* Python values                                                           *)
(***************************************************************************)
NoneV == [isNone |-> TRUE, v |-> <<>>]
Some(x) == [isNone |-> FALSE, v |-> x]

\* bool(x) for x None or a list
Truthy(x) == ~x.isNone /\ Len(x.v) > 0

\* list(range(a, b, s)) for s > 0
Range(a, b, s) ==
    IF b <= a THEN <<>>
    ELSE [i \in 1 .. ((b - a + s - 1) \div s) |-> a + (i - 1) * s]

SeqsUpTo(S, n) == UNION {[1 .. k -> S] : k \in 0 .. n}

(***************************************************************************)
(* TNM common data model (module level, lines 40-51)                       *)
(***************************************************************************)
nvalues_from1(values) == Range(1, Len(values) + 1, 1)

\* list(range(len(values)))
nvalues(values) == Range(0, Len(values), 1)

t_nvalues == nvalues(t_values)
n_nvalues == nvalues(n_values)
m_nvalues == nvalues(m_values)

(***************************************************************************)
(* numpy / scipy / pandas helpers used by survival_profile                 *)
(***************************************************************************)
\* np.where(np.array(values) == x)[0]: the 0-based positions of x, ascending
where(values, x) ==
    SelectSeq(Range(0, Len(values), 1), LAMBDA i : values[i + 1] = x)

\* scipy.spatial.distance.euclidean(u, v), squared
euclidean(u, v) ==
    (u[1] - v[1]) * (u[1] - v[1]) + (u[2] - v[2]) * (u[2] - v[2])
        + (u[3] - v[3]) * (u[3] - v[3])

RECURSIVE argmin_scan_last(_, _, _)
argmin_scan_last(d, i, best) ==
    IF i > Len(d) THEN best - 1
    ELSE argmin_scan_last(d, i + 1, IF d[i] <= d[best] THEN i ELSE best)

RECURSIVE argmin_scan(_, _, _)
\* linear minimum scan: a later element replaces the best only if smaller
argmin_scan(d, i, best) ==
    IF i > Len(d) THEN best - 1
    ELSE argmin_scan(d, i + 1, IF d[i] < d[best] THEN i ELSE best)

argmin_last(d) == argmin_scan_last(d, 2, 1)

\* np.argmin(d) for non-empty d: 0-based index of the first minimum
argmin(d) == argmin_scan(d, 2, 1)

survival_days_from30 == Range(30, 760, 30)

\* list(range(0, 730, 30))
survival_days == Range(0, 730, 30)

\* pd.DataFrame({'survival rate': rate, 'survival days': days}) for two lists
\* of one length: the rows, as <<days, rate>> pairs
DataFrame(rate, days) == [i \in 1 .. Len(days) |-> <<days[i], rate[i]>>]

(***************************************************************************)
(* survival_profile(t, n, m) (lines 213-251) as a function of the globals  *)
(* it reads.  The result records the value returned or the exception       *)
(* raised (out), the step reached (stage), the encoded query (xi), the     *)
(* matched cluster (idx, -1 when not computed) and the rows of the frame   *)
(* handed to the chart (dfp).                                              *)
(***************************************************************************)
NoResult == [out |-> "", stage |-> "guard", xi |-> <<>>, idx |-> -1,
             dfp |-> <<>>]

\* lines 230-249 : the frame of the closest cluster's profile and the chart
render_profile(xi, idx) ==
    IF profiles.isNone
    THEN [NoResult EXCEPT !.out = "TypeError", !.stage = "profile",
                          !.xi = xi, !.idx = idx]
    ELSE IF idx + 1 > Len(profiles.v)
    THEN [NoResult EXCEPT !.out = "IndexError", !.stage = "profile",
                          !.xi = xi, !.idx = idx]
    ELSE IF Len(profiles.v[idx + 1]) # Len(survival_days)
    THEN [NoResult EXCEPT !.out = "ValueError", !.stage = "frame",
                          !.xi = xi, !.idx = idx]
    ELSE [out |-> "graph", stage |-> "done", xi |-> xi, idx |-> idx,
          dfp |-> DataFrame(profiles.v[idx + 1], survival_days)]

\* lines 225-228 : distances to every centroid and the index of the minimum
closest_cluster(xi) ==
    IF centroids.isNone
    THEN [NoResult EXCEPT !.out = "TypeError", !.stage = "match", !.xi = xi]
    ELSE LET distances == [j \in 1 .. Len(centroids.v) |->
                              euclidean(xi, centroids.v[j])]
         IN  IF Len(distances) = 0
             THEN [NoResult EXCEPT !.out = "ValueError", !.stage = "match",
                                   !.xi = xi]
             ELSE render_profile(xi, argmin(distances))

survival_profile(t, n, m) ==
    IF ~(t # 0 /\ n # 0 /\ m # 0) THEN NoResult
    ELSE LET t_where == where(t_values, t)
             n_where == where(n_values, n)
             m_where == where(m_values, m)
         IN  IF Len(t_where) = 0 \/ Len(n_where) = 0 \/ Len(m_where) = 0
             THEN [NoResult EXCEPT !.out = "IndexError", !.stage = "encode"]
             ELSE closest_cluster(<<t_nvalues[t_where[1] + 1],
                                    n_nvalues[n_where[1] + 1],
                                    m_nvalues[m_where[1] + 1]>>)

\* the values a stage dropdown can send for an axis: nothing, each listed
\* label, and one label the scheme does not list
Unlisted(values) ==
    CHOOSE x \in 1 .. Len(values) + 1 :
        /\ \A i \in 1 .. Len(values) : values[i] # x
        /\ \A y \in 1 .. x - 1 : \E i \in 1 .. Len(values) : values[i] = y
InputsFor(values) ==
    {0} \cup {values[i] : i \in 1 .. Len(values)} \cup {Unlisted(values)}

Called(op, args, r) ==
    [op |-> op, args |-> args, out |-> r.out, stage |-> r.stage,
     xi |-> r.xi, idx |-> r.idx, dfp |-> r.dfp, complete |-> FALSE]

SurvivalProfile ==
    /\ \E t \in InputsFor(t_values), n \in InputsFor(n_values),
          m \in InputsFor(m_values) :
          last' = Called("profile", <<t, n, m>>, survival_profile(t, n, m))
    /\ UNCHANGED <<globals, cdm, now, remote, button>>

(***************************************************************************)
(* The matching callback alone, from every stored result within the bounds *)
(***************************************************************************)
Points == {<<a, b, c>> : a \in Coord, b \in Coord, c \in Coord}
MkProfile(L, s) == [i \in 1 .. L |-> (s + i) % 3]
ProfileLens ==
    {0, Len(survival_days) - 1, Len(survival_days), Len(survival_days) + 1}
ProfileFamily == {MkProfile(L, s) : L \in ProfileLens, s \in RateLevels}

DefaultScheme == <<1, 2>>
DefaultCentroids ==
    Some([i \in 1 .. MaxClusters |-> <<(i + 1) % 2, (i + 1) % 2, (i + 1) % 2>>])
DefaultProfiles ==
    Some([i \in 1 .. MaxClusters |-> MkProfile(Len(survival_days), i % 2)])
AxisSchemes == SeqsUpTo(StageLabels, MaxValues)

\* a completed task whose result entry held the stored values (a None value
\* is a key the entry lacked)
Retrieved(c, p) ==
    /\ centroids = c
    /\ profiles = p
    /\ client = TRUE
    /\ task = 1
    /\ start = 1
    /\ now = 1
    /\ remote = [id |-> 1, complete |-> TRUE,
                 result |-> [centroids |-> c, profiles |-> p]]
    /\ button = TRUE
    /\ last = Called("init", <<>>, NoResult)

InitScheme ==
    /\ \E s \in AxisSchemes :
          \/ t_values = s /\ n_values = DefaultScheme /\ m_values = DefaultScheme
          \/ t_values = DefaultScheme /\ n_values = s /\ m_values = DefaultScheme
          \/ t_values = DefaultScheme /\ n_values = DefaultScheme /\ m_values = s
    /\ Retrieved(DefaultCentroids, DefaultProfiles)

InitCentroids ==
    /\ t_values = DefaultScheme /\ n_values = DefaultScheme
    /\ m_values = DefaultScheme
    /\ \/ Retrieved(NoneV, NoneV)
       \/ \E c \in SeqsUpTo(Points, MaxClusters) :
             Retrieved(Some(c), DefaultProfiles)

InitProfiles ==
    /\ t_values = DefaultScheme /\ n_values = DefaultScheme
    /\ m_values = DefaultScheme
    /\ \/ Retrieved(DefaultCentroids, NoneV)
       \/ \E p \in SeqsUpTo(ProfileFamily, MaxClusters) :
             Retrieved(DefaultCentroids, Some(p))

InitPure == InitScheme \/ InitCentroids \/ InitProfiles
NextPure == SurvivalProfile
SpecPure == InitPure /\ [][NextPure]_vars

(***************************************************************************)
(* The remote execution service, as the page sees it                       *)
(***************************************************************************)
\* a result entry: the 'centroids' and 'profiles' of its 'result'; a None
\* value is a key the entry lacks
NoPayload == [centroids |-> NoneV, profiles |-> NoneV]
\* the result of task id with c clusters / p profiles: the values differ
\* from one task to the next
CentroidsOf(c, id) ==
    [i \in 1 .. c |-> <<(i + id) % 2, (i + id) % 2, (i + id) % 2>>]
ProfilesOf(p, id) ==
    [i \in 1 .. p |-> MkProfile(Len(survival_days), (i + id) % 2)]
Payloads(id) ==
    [centroids :
         {NoneV} \cup {Some(CentroidsOf(c, id)) : c \in 0 .. MaxClusters},
     profiles :
         {NoneV} \cup {Some(ProfilesOf(p, id)) : p \in 0 .. MaxClusters}]

\* what client.authenticate / client.task.create can do on a submission
CreateReplies == {"handle", "falsy", "authenticate raises", "create raises"}

\* the created task finishes and its result entry becomes available
RemoteFinish ==
    /\ remote.id > 0
    /\ ~remote.complete
    /\ \E payload \in Payloads(remote.id) :
          remote' = [remote EXCEPT !.complete = TRUE, !.result = payload]
    /\ UNCHANGED <<globals, cdm, now, button, last>>

(***************************************************************************)
(* send_similarity_analysis_task(n_clicks) (lines 120-170)                 *)
(***************************************************************************)
send_output_always(tk) == "created"

\* lines 159-168 : the output region, by the truth value of task
send_output(tk) == IF tk # 0 THEN "created" ELSE "wrong"

Raised(op, args, exc, stage) ==
    Called(op, args, [NoResult EXCEPT !.out = exc, !.stage = stage])

SendTask ==
    \E n_clicks \in Clicks :
        IF n_clicks > 0
        THEN /\ now < MaxSubmits
             /\ client' = TRUE
             /\ \E reply \in CreateReplies :
                   IF reply = "authenticate raises"
                   THEN /\ last' = Raised("send", <<n_clicks>>, "RemoteError",
                                          "authenticate")
                        /\ UNCHANGED <<task, start, now, remote, button>>
                   ELSE /\ start' = now + 1
                        /\ now' = now + 1
                        /\ IF reply = "create raises"
                           THEN /\ last' = Raised("send", <<n_clicks>>,
                                                  "RemoteError", "create")
                                /\ UNCHANGED <<task, remote, button>>
                           ELSE /\ task' = IF reply = "handle" THEN now + 1
                                           ELSE 0
                                /\ remote' =
                                      IF reply = "handle"
                                      THEN [id |-> now + 1, complete |-> FALSE,
                                            result |-> NoPayload]
                                      ELSE remote
                                /\ button' = (send_output(task') = "created")
                                /\ last' = Raised("send", <<n_clicks>>,
                                                  send_output(task'), "done")
             /\ UNCHANGED <<centroids, profiles, cdm>>
        ELSE /\ button' = FALSE
             /\ last' = Called("send", <<n_clicks>>, NoResult)
             /\ UNCHANGED <<globals, cdm, now, remote>>

(***************************************************************************)
(* get_similarity_analysis_results(n_clicks) (lines 177-204)               *)
(***************************************************************************)
duration_prebound(complete) == TRUE

\* lines 187-192 : the local duration is assigned only in the complete branch
duration_bound(complete) == complete

\* lines 195-202 : the output region
get_output(c, p, complete) ==
    IF Truthy(c) /\ Truthy(p)
    THEN IF duration_bound(complete) THEN "completed"
         ELSE "UnboundLocalError"
    ELSE "waiting"

GetResults ==
    /\ button
    /\ \E n_clicks \in Clicks :
          IF n_clicks > 0
          THEN IF ~client
               THEN /\ last' = Raised("get", <<n_clicks>>, "AttributeError",
                                      "task")
                    /\ UNCHANGED <<centroids, profiles>>
               ELSE IF task = 0
               THEN /\ last' = Raised("get", <<n_clicks>>, "TypeError", "task")
                    /\ UNCHANGED <<centroids, profiles>>
               ELSE LET complete == remote.id = task /\ remote.complete
                        result == remote.result
                    IN  IF complete /\ result.centroids.isNone
                        THEN /\ last' = [Raised("get", <<n_clicks>>, "KeyError",
                                                "result")
                                         EXCEPT !.complete = complete]
                             /\ UNCHANGED <<centroids, profiles>>
                        ELSE IF complete /\ result.profiles.isNone
                        THEN /\ centroids' = result.centroids
                             /\ last' = [Raised("get", <<n_clicks>>, "KeyError",
                                                "result")
                                         EXCEPT !.complete = complete]
                             /\ UNCHANGED profiles
                        ELSE /\ centroids' = IF complete THEN result.centroids
                                             ELSE centroids
                             /\ profiles' = IF complete THEN result.profiles
                                            ELSE profiles
                             /\ last' =
                                   [Raised("get", <<n_clicks>>,
                                           get_output(centroids', profiles',
                                                      complete), "done")
                                    EXCEPT !.complete = complete]
          ELSE /\ last' = Called("get", <<n_clicks>>, NoResult)
               /\ UNCHANGED <<centroids, profiles>>
    /\ UNCHANGED <<client, task, start, cdm, now, remote, button>>

(***************************************************************************)
(* The page                                                                *)
(***************************************************************************)
\* the staging scheme of the page: one label per axis
PageScheme == <<1>>

Init ==
    /\ client = FALSE
    /\ task = 0
    /\ start = 0
    /\ centroids = NoneV
    /\ profiles = NoneV
    /\ t_values = PageScheme
    /\ n_values = PageScheme
    /\ m_values = PageScheme
    /\ now = 0
    /\ remote = [id |-> 0, complete |-> FALSE, result |-> NoPayload]
    /\ button = FALSE
    /\ last = Called("init", <<>>, NoResult)

Next == SendTask \/ RemoteFinish \/ GetResults \/ SurvivalProfile
Spec == Init /\ [][Next]_vars

(***************************************************************************)
(* Properties                                                              *)
(***************************************************************************)
GridPoints == 25      \* len(range(0, 730, 30))

Selected == last.op = "profile" /\ \A k \in 1 .. 3 : last.args[k] # 0
Listed(k) == \E i \in 1 .. Len(cdm[k]) : cdm[k][i] = last.args[k]
Encoded == last.op = "profile" /\ Len(last.xi) = 3
Matched == last.op = "profile" /\ last.idx >= 0
Clicked(op) == last.op = op /\ last.args[1] > 0

\* C1: whenever survival_profile has encoded a query and the centroid list
\* is non-empty, the cluster it picks is the lowest index whose centroid is
\* at minimum Euclidean distance from the query (first seen wins a tie).
C1_NearestCentroidFirstWins ==
    /\ (Encoded /\ Truthy(centroids)) => Matched
    /\ Matched =>
          LET i == last.idx + 1
              dist(j) == euclidean(last.xi, centroids.v[j])
          IN  /\ i \in 1 .. Len(centroids.v)
              /\ \A j \in 1 .. Len(centroids.v) : dist(i) <= dist(j)
              /\ \A j \in 1 .. i - 1 : dist(j) > dist(i)

\* C1 witness: a match decided by the tie-break, two different centroids at
\* the same minimum distance
C1_TieWitness ==
    /\ Matched
    /\ Len(centroids.v) >= 2
    /\ centroids.v[1] # centroids.v[2]
    /\ euclidean(last.xi, centroids.v[1]) = euclidean(last.xi, centroids.v[2])
    /\ \A j \in 1 .. Len(centroids.v) :
          euclidean(last.xi, centroids.v[1]) <= euclidean(last.xi, centroids.v[j])
    /\ last.idx = 0

\* C2 (as claimed): a retrieval with n_clicks > 0 that finds the task not
\* complete answers 'Still waiting for results, try again...' and raises
\* nothing.
C2_NotReadyWithoutError ==
    (Clicked("get") /\ ~last.complete) => last.out = "waiting"

\* C3 (as claimed): after a submission with n_clicks > 0 the stored centroids
\* and profiles are reset, so every match computed afterwards is against the
\* clusters retrieved for the task now stored.
C3_SubmissionDiscardsPriorState ==
    /\ Clicked("send") => (centroids.isNone /\ profiles.isNone)
    /\ Matched =>
          /\ task # 0 /\ remote.id = task /\ remote.complete
          /\ centroids = remote.result.centroids

\* C4 (as claimed): three listed stage labels selected while centroids is
\* still None end in NoResultsAvailableError.
C4_NoResultsAvailable ==
    (Selected /\ (\A k \in 1 .. 3 : Listed(k)) /\ centroids.isNone)
        => last.out = "NoResultsAvailableError"

\* C5 (as claimed): a selected stage label that its axis does not list ends
\* in InvalidStageError, and no nearest-centroid computation is attempted.
C5_InvalidStage ==
    (Selected /\ (\E k \in 1 .. 3 : ~Listed(k)))
        => (last.out = "InvalidStageError" /\ last.stage = "encode"
            /\ last.idx = -1)

\* C6 (as claimed): a retrieved result whose profile list and centroid list
\* differ in length is reported as MissingResultError, and survival_profile
\* never indexes profiles with a matched cluster index that is out of range.
C6_LengthsEnforced ==
    /\ (/\ Clicked("get") /\ last.complete
        /\ ~remote.result.centroids.isNone /\ ~remote.result.profiles.isNone
        /\ Len(remote.result.profiles.v) # Len(remote.result.centroids.v))
          => last.out = "MissingResultError"
    /\ ~(Matched /\ last.stage = "profile" /\ last.out = "IndexError")

HasProfile == Matched /\ ~profiles.isNone /\ last.idx < Len(profiles.v)
SeriesOf(rate) ==
    /\ last.out = "graph"
    /\ Len(last.dfp) = Len(rate)
    /\ \A i \in 1 .. Len(rate) : last.dfp[i] = <<30 * (i - 1), rate[i]>>

\* C7 (as claimed): for a matched cluster whose profile has L values, for
\* every L >= 0, exactly L pairs are assembled, the i-th (0-based) being
\* (30*i, profile[i]).
C7_SeriesFollowsProfile ==
    HasProfile => SeriesOf(profiles.v[last.idx + 1])

\* C7 (amended): for a matched cluster whose profile has exactly 25 values,
\* exactly 25 pairs are assembled, the i-th (0-based) being (30*i,
\* profile[i]); for a profile of any other length no series is assembled
\* and the call ends in a ValueError.
C7_SeriesOnFixedGrid ==
    HasProfile =>
        IF Len(profiles.v[last.idx + 1]) = GridPoints
        THEN SeriesOf(profiles.v[last.idx + 1])
        ELSE last.out = "ValueError" /\ last.dfp = <<>>

\* C7 witness: a chart assembled from the profile of the second cluster
C7_ChartWitness ==
    /\ HasProfile
    /\ last.idx = 1
    /\ last.out = "graph"
    /\ Len(last.dfp) = GridPoints

\* C8: for every axis and every label its value list holds, the ordinal the
\* encoder computes is the (first) position of the label in the list, and
\* decoding the ordinal (the list's element at that 0-based index) gives the
\* label back.
C8_EncodeDecode ==
    /\ (Selected /\ \A k \in 1 .. 3 : Listed(k)) => Encoded
    /\ Encoded =>
          \A k \in 1 .. 3 :
              /\ last.xi[k] \in 0 .. Len(cdm[k]) - 1
              /\ cdm[k][last.xi[k] + 1] = last.args[k]
              /\ \A j \in 1 .. last.xi[k] : cdm[k][j] # last.args[k]

\* C8 witness: an encoded label that is not the first of its list, in a list
\* whose labels are not in numeric order
C8_EncodeWitness ==
    /\ Encoded
    /\ \E k \in 1 .. 3 : last.xi[k] = 1 /\ last.args[k] = 1

\* C9: the 'Get results' button is on the page only with client and task
\* set; it appears only through a submission with n_clicks > 0 whose task
\* creation returned a truthy handle; a submission that yields a falsy task
\* shows 'Something went wrong...' and leaves no button.
C9_ButtonOnlyAfterCreation ==
    /\ [](button => (client /\ task # 0))
    /\ []((last.op = "send" /\ last.out = "wrong") => ~button)
    /\ [][(~button /\ button') =>
             (/\ last'.op = "send" /\ last'.args[1] > 0
              /\ last'.out = "created" /\ task' # 0)]_vars

\* C9 witness: the button on the page after a second, successful submission
C9_ButtonWitness ==
    button /\ Clicked("send") /\ last.out = "created" /\ task = 2

\* C10: 'Analysis completed' is returned only by a call in which the stored
\* task reported complete, with the stored centroids and profiles being the
\* non-empty values of that task's result entry.
C10_CompletedOnlyFromCurrentTask ==
    (last.op = "get" /\ last.out = "completed") =>
        /\ last.complete
        /\ task # 0 /\ remote.id = task /\ remote.complete
        /\ Truthy(centroids) /\ Truthy(profiles)
        /\ centroids = remote.result.centroids
        /\ profiles = remote.result.profiles

\* C10 witness: completion announced for a second task
C10_CompletedWitness ==
    last.op = "get" /\ last.out = "completed" /\ task = 2

====
